---- MODULE Spec2Model ----
(***************************************************************************)
(* Model of the two services of the repository:                            *)
(*   src/lib/apis/rag.py              the RAG document store (FastAPI)     *)
(*   src/lib/apis/history_backend.py  the chat-history store (Flask)       *)
(* Text is a sequence of one-character strings, so that lower(), replace() *)
(* strip() and slicing are computed character by character.                *)
(***************************************************************************)
EXTENDS Integers, Sequences, FiniteSets, TLC

VARIABLES
    tables,     \* physical catalog: table name -> [rows, seq]
    metadata,   \* Base.metadata.tables: names registered in this process
    req,        \* per request slot: position, arguments, locals, last response
    assigned,   \* history: table name -> ids ever handed out by its id sequence
    ck,         \* the chunking loop of ingest_file, run on its own (SpecChunk)
    conversations,  \* history store: rows of table conversations
    chat_messages,  \* history store: rows of table chat_messages
    hseq,           \* history store: the two id sequences
    fkey,           \* history store: whether the schema declares the foreign key
    hresp,          \* history store: the request just answered and its response
    hreq,           \* history store: the requests in flight, statement by statement
    rk              \* the ranking of a similarity query, run on its own (SpecRank)

vars == <<tables, metadata, req, assigned, ck,
          conversations, chat_messages, hseq, fkey, hresp, hreq, rk>>
histVars == <<conversations, chat_messages, hseq, fkey, hresp, hreq, rk>>
ragVars == <<tables, metadata, req, assigned>>
nonRag == <<ck, histVars>>

(***************************************************************************)
(* Bounds                                                                  *)
(***************************************************************************)
MaxSeq == 2          \* ids a table's sequence hands out before inserts stop
MaxLen == 4          \* longest file text the chunker is run on
MaxChunk == 3        \* largest chunk_size (and overlap - 1) the chunker is given
MaxConv == 2         \* conversations the history store creates before it stops
MaxMsg == 2          \* messages the history store inserts before it stops
MaxRows == 3         \* stored rows a similarity query is ranked over (SpecRank)

Requests == {"r1", "r2"}

\* Raw collection names a caller may send.
RawNames == {<<"A", " ">>, <<"a", "_">>}
\* Raw collection names the document operations are called with.
DocNames == {<<"A", " ">>}
Contents == {<< >>, <<"a">>}
DocIds == {1, 2}

(***************************************************************************)
(* Text helpers                                                            *)
(***************************************************************************)
\* str.lower() on one character
Lower(ch) ==
    CASE ch = "A" -> "a"
      [] ch = "B" -> "b"
      [] OTHER -> ch

NormalizeNameNoLower(raw) ==
    [i \in 1..Len(raw) |-> IF raw[i] = " " THEN "_" ELSE raw[i]]

\* collection.name.lower().replace(" ", "_")
NormalizeName(raw) ==
    [i \in 1..Len(raw) |-> IF Lower(raw[i]) = " " THEN "_" ELSE Lower(raw[i])]

\* the characters str.strip() removes
IsSpace(ch) == ch \in {" ", "\n", "\t", "\r"}

RECURSIVE LStrip(_)
LStrip(s) == IF s # << >> /\ IsSpace(Head(s)) THEN LStrip(Tail(s)) ELSE s

RECURSIVE RStrip(_)
RStrip(s) ==
    IF s # << >> /\ IsSpace(s[Len(s)]) THEN RStrip(SubSeq(s, 1, Len(s) - 1)) ELSE s

\* str.strip()
Strip(s) == RStrip(LStrip(s))

\* text_data.replace("\r", " ").strip()
Clean(text_data) ==
    Strip([i \in 1..Len(text_data) |-> IF text_data[i] = "\r" THEN " " ELSE text_data[i]])

Min(a, b) == IF a <= b THEN a ELSE b
Max(a, b) == IF a >= b THEN a ELSE b

\* Python's cleaned[start:end] for 0 <= start <= end <= len (0-based, end exclusive)
Slice(s, start, end) == SubSeq(s, start + 1, end)

(***************************************************************************)
(* The chunker of ingest_file (rag.py 306-331)                             *)
(***************************************************************************)
DefaultChunkSize == 800

\* if chunk_size <= 0: chunk_size = 800
EffChunkSize(chunk_size) ==
    IF chunk_size <= 0 THEN DefaultChunkSize ELSE chunk_size

EffOverlapNoClamp(chunk_size, overlap) ==
    IF overlap < 0 THEN 0 ELSE overlap

\* if overlap < 0: overlap = 0; if overlap >= chunk_size: overlap = max(0, chunk_size // 4)
EffOverlap(chunk_size, overlap) ==
    LET c == EffChunkSize(chunk_size)
        o == IF overlap < 0 THEN 0 ELSE overlap
    IN  IF o >= c THEN Max(0, c \div 4) ELSE o

\* chunks = []; start = 0.  wins and spans record, for every iteration, the
\* window [start, end) and, for every emitted chunk, the positions it kept.
LoopInit ==
    [start |-> 0, chunks |-> << >>, wins |-> << >>, spans |-> << >>, done |-> FALSE]

\* One iteration of `while start < length` with effective chunk_size c and overlap o.
ChunkIterNoOverlap(cleaned, c, o, st) ==
    LET length == Len(cleaned)
        end    == Min(length, st.start + c)
        window == Slice(cleaned, st.start, end)
        chunk  == Strip(window)
        lead   == Len(window) - Len(LStrip(window))
    IN  [start  |-> IF end >= length THEN st.start ELSE end,
         chunks |-> IF chunk # << >> THEN Append(st.chunks, chunk) ELSE st.chunks,
         wins   |-> Append(st.wins, <<st.start, end>>),
         spans  |-> IF chunk # << >>
                    THEN Append(st.spans, <<st.start + lead, st.start + lead + Len(chunk)>>)
                    ELSE st.spans,
         done   |-> end >= length]

ChunkIter(cleaned, c, o, st) ==
    LET length == Len(cleaned)
        end    == Min(length, st.start + c)
        window == Slice(cleaned, st.start, end)
        chunk  == Strip(window)
        lead   == Len(window) - Len(LStrip(window))
    IN  [start  |-> IF end >= length THEN st.start ELSE end - o,
         chunks |-> IF chunk # << >> THEN Append(st.chunks, chunk) ELSE st.chunks,
         wins   |-> Append(st.wins, <<st.start, end>>),
         spans  |-> IF chunk # << >>
                    THEN Append(st.spans, <<st.start + lead, st.start + lead + Len(chunk)>>)
                    ELSE st.spans,
         done   |-> end >= length]

LoopRunning(cleaned, st) == ~st.done /\ st.start < Len(cleaned)

RECURSIVE ChunkLoop(_, _, _, _)
ChunkLoop(cleaned, c, o, st) ==
    IF LoopRunning(cleaned, st) THEN ChunkLoop(cleaned, c, o, ChunkIter(cleaned, c, o, st))
    ELSE st

\* the chunks ingest_file produces from the cleaned text
Chunker(cleaned, chunk_size, overlap) ==
    ChunkLoop(cleaned, EffChunkSize(chunk_size), EffOverlap(chunk_size, overlap),
              LoopInit).chunks

(***************************************************************************)
(* The chunker run on its own: every text up to MaxLen, every parameter    *)
(***************************************************************************)
TextChars == {"a", " ", "\r"}
Texts == UNION {[1..n -> TextChars] : n \in 1..MaxLen}
ChunkSizes == -1..MaxChunk
Overlaps == -1..(MaxChunk + 1)

CkIdle ==
    [pc |-> "idle", text |-> << >>, chunk_size |-> 0, overlap |-> 0,
     cleaned |-> << >>, c |-> 0, o |-> 0, st |-> LoopInit, status |-> 0]

InitCk ==
    ck \in {[CkIdle EXCEPT !.pc = "read", !.text = t, !.chunk_size = c, !.overlap = o] :
              t \in Texts, c \in ChunkSizes, o \in Overlaps}

\* lines 306-319: clean, reject empty text, clamp the parameters
ChunkStart ==
    /\ ck.pc = "read"
    /\ LET cleaned == Clean(ck.text) IN
         IF cleaned = << >>
         THEN ck' = [ck EXCEPT !.pc = "failed", !.status = 400]
         ELSE ck' = [ck EXCEPT !.pc = "loop", !.cleaned = cleaned,
                               !.c = EffChunkSize(ck.chunk_size),
                               !.o = EffOverlap(ck.chunk_size, ck.overlap)]
    /\ UNCHANGED <<ragVars, histVars>>

\* lines 321-328: one iteration of the loop
ChunkStep ==
    /\ ck.pc = "loop"
    /\ LoopRunning(ck.cleaned, ck.st)
    /\ ck' = [ck EXCEPT !.st = ChunkIter(ck.cleaned, ck.c, ck.o, ck.st)]
    /\ UNCHANGED <<ragVars, histVars>>

\* lines 330-331: the loop has ended
ChunkEnd ==
    /\ ck.pc = "loop"
    /\ ~LoopRunning(ck.cleaned, ck.st)
    /\ ck' = [ck EXCEPT !.pc = "done",
                        !.status = IF ck.st.chunks = << >> THEN 400 ELSE 200]
    /\ UNCHANGED <<ragVars, histVars>>

NextChunk == ChunkStart \/ ChunkStep \/ ChunkEnd

(***************************************************************************)
(* The RAG store (rag.py): embedding provider and storage                  *)
(***************************************************************************)
Count(s, ch) == Cardinality({i \in 1..Len(s) : s[i] = ch})

\* model.encode(text).tolist(): a deterministic text -> vector function
Encode(text) == <<1 + Count(text, "a"), 1 + Count(text, "b")>>

\* to_vector_literal: the text form "[x1,x2,...]" handed to the storage
to_vector_literal(arr) == [open |-> "[", items |-> arr, close |-> "]"]

\* the storage's reading of a vector literal into a vector column
ParseVector(lit) == lit.items

\* list_collections: inspector.get_table_names()
list_collections == DOMAIN tables

\* inspector.has_table(table_name)
has_table(t) == t \in DOMAIN tables

\* Column(Integer, primary_key=True): the id the table's sequence hands out next
NextIdReuse(tbl) ==
    IF tbl.rows = {} THEN 1
    ELSE (CHOOSE i \in {x.id : x \in tbl.rows} : \A x \in tbl.rows : x.id <= i) + 1

NextId(tbl) == tbl.seq + 1

\* the row INSERT ... (content, embedding) VALUES (:content, :embedding) stores
NewRow(id, content) ==
    [id |-> id, content |-> content,
     embedding |-> ParseVector(to_vector_literal(Encode(content)))]

\* UPDATE ... SET content = :content, embedding = :embedding WHERE id = :id
UpdateRowsContentOnly(rows, id, content) ==
    {IF x.id = id THEN [x EXCEPT !.content = content] ELSE x : x \in rows}

UpdateRows(rows, id, content) ==
    {IF x.id = id THEN NewRow(id, content) ELSE x : x \in rows}

\* DELETE FROM ... WHERE id = :id
DeleteRowsUpTo(rows, id) == {x \in rows : x.id > id}

DeleteRows(rows, id) == {x \in rows : x.id # id}

\* an INSERT inside a transaction that is still open: the sequence moves on at
\* once, the row is visible to others only after the commit
InsertInTxAutocommit(t, id, content) ==
    [tables EXCEPT ![t].seq = id, ![t].rows = @ \cup {NewRow(id, content)}]

InsertInTx(t, id, content) == [tables EXCEPT ![t].seq = id]

\* DROP TABLE: the catalog without the table, rows and sequence included
DropTableRowsFirst(t) ==
    IF tables[t].rows # {}
    THEN [tables EXCEPT ![t].rows = {}]
    ELSE [n \in DOMAIN tables \ {t} |-> tables[n]]

DropTable(t) == [n \in DOMAIN tables \ {t} |-> tables[n]]

\* CREATE TABLE through Base.metadata.create_all (checkfirst)
CreateTable(t) ==
    IF t \in DOMAIN tables THEN tables
    ELSE [n \in DOMAIN tables \cup {t} |->
            IF n = t THEN [rows |-> {}, seq |-> 0] ELSE tables[n]]

\* responses
Ok(code, body) == [code |-> code, kind |-> "ok", body |-> body]
NotFound(what) == [code |-> 404, kind |-> "NotFound", body |-> what]
AlreadyExists == [code |-> 400, kind |-> "AlreadyExists", body |-> "collection"]
BadRequest(what) == [code |-> 400, kind |-> "ValidationError", body |-> what]
ServerError == [code |-> 500, kind |-> "Error", body |-> "exception"]
NoResp == [code |-> 0, kind |-> "none", body |-> "none"]

ReqIdle ==
    [pc |-> "done", op |-> "none", table |-> << >>, id |-> 0, content |-> << >>,
     arg |-> << >>, chunks |-> << >>, pending |-> {}, ids |-> << >>, resp |-> NoResp]

\* a request that starts: the slot's previous request is forgotten
Start(op, t) == [ReqIdle EXCEPT !.op = op, !.table = t]

Free(r) == req[r].pc = "done"

\* the response leaves; of the request the slot keeps what was asked of which
\* table and the ids an ingest had been given
Respond(r, rq, resp) ==
    req' = [req EXCEPT ![r] = [ReqIdle EXCEPT !.op = rq.op, !.table = rq.table,
                                              !.id = rq.id, !.ids = rq.ids,
                                              !.resp = resp]]

\* an open transaction of another request that has written to table t
LockedByOther(r, t) ==
    \E q \in Requests \ {r} :
        /\ req[q].pc \in {"insert", "commit"}
        /\ req[q].table = t
        /\ req[q].pending # {}

\* the history store before any request
NoHResp == [op |-> "none", args |-> << >>, code |-> 0, body |-> << >>]

\* the history requests served at the same time
HRequests == {"h1", "h2"}

\* a history request slot with no request: no connection, no transaction
HReqIdle ==
    [pc |-> "done", op |-> "none", conv_id |-> 0, title |-> << >>, todo |-> << >>,
     conn |-> "none", insConvs |-> {}, insMsgs |-> {}, updConvs |-> {},
     delMsgs |-> {}, delConvs |-> {}, deleted |-> << >>, not_found |-> << >>,
     code |-> 0]

\* no ranking has been asked for
RkIdle ==
    [pc |-> "idle", store |-> "none", rows |-> {}, query |-> << >>, scope |-> 0,
     top_k |-> 0, results |-> << >>]

HistIdle ==
    /\ conversations = {}
    /\ chat_messages = {}
    /\ hseq = [conv |-> 0, msg |-> 0]
    /\ fkey = FALSE
    /\ hresp = NoHResp
    /\ hreq = [h \in HRequests |-> HReqIdle]
    /\ rk = RkIdle

Init ==
    /\ tables = [t \in {} |-> 0]
    /\ metadata = {}
    /\ req = [r \in Requests |-> ReqIdle]
    /\ assigned = [t \in {} |-> {}]
    /\ ck = CkIdle
    /\ HistIdle

(***************************************************************************)
(* create_collection (rag.py 67-99)                                        *)
(***************************************************************************)
\* lines 72-82: normalize, registry check, physical check
CreateCollectionCheck(r, raw) ==
    /\ Free(r)
    /\ LET t  == NormalizeName(raw)
           rq == Start("create_collection", t)
       IN  IF t \in metadata \/ has_table(t)
           THEN Respond(r, rq, AlreadyExists)
           ELSE req' = [req EXCEPT ![r] = [rq EXCEPT !.pc = "create"]]
    /\ UNCHANGED <<tables, metadata, assigned, nonRag>>

\* lines 84-99: declare the table class (registers it) and create the table
CreateCollectionTable(r) ==
    /\ req[r].pc = "create"
    /\ LET t == req[r].table IN
         IF t \in metadata
         THEN \* type(...) raises: the table is already defined for this MetaData
              /\ Respond(r, req[r], ServerError)
              /\ UNCHANGED <<tables, metadata, assigned>>
         ELSE /\ metadata' = metadata \cup {t}
              /\ tables' = CreateTable(t)
              /\ assigned' = [n \in DOMAIN assigned \cup {t} |->
                                IF n = t /\ ~has_table(t) THEN {} ELSE assigned[n]]
              /\ Respond(r, req[r], Ok(201, t))
    /\ UNCHANGED nonRag

(***************************************************************************)
(* delete_collection (rag.py 204-221)                                      *)
(***************************************************************************)
DeleteCollectionCheck(r, raw) ==
    /\ Free(r)
    /\ LET t  == NormalizeName(raw)
           rq == Start("delete_collection", t)
       IN  IF ~has_table(t)
           THEN Respond(r, rq, NotFound("collection"))
           ELSE req' = [req EXCEPT ![r] = [rq EXCEPT !.pc = "exec"]]
    /\ UNCHANGED <<tables, metadata, assigned, nonRag>>

\* DROP TABLE waits for the transactions that have written to the table
DeleteCollectionExec(r) ==
    /\ req[r].pc = "exec"
    /\ req[r].op = "delete_collection"
    /\ LET t == req[r].table IN
         IF ~has_table(t)
         THEN /\ Respond(r, req[r], ServerError)
              /\ UNCHANGED tables
         ELSE /\ ~LockedByOther(r, t)
              /\ tables' = DropTable(t)
              /\ Respond(r, req[r], Ok(200, t))
    /\ UNCHANGED <<metadata, assigned, nonRag>>

(***************************************************************************)
(* add_document (rag.py 224-249)                                           *)
(***************************************************************************)
AddDocumentCheck(r, raw, content) ==
    /\ Free(r)
    /\ LET t  == NormalizeName(raw)
           rq == [Start("add_document", t) EXCEPT !.content = content]
       IN  IF ~has_table(t)
           THEN Respond(r, rq, NotFound("collection"))
           ELSE req' = [req EXCEPT ![r] = [rq EXCEPT !.pc = "exec"]]
    /\ UNCHANGED <<tables, metadata, assigned, nonRag>>

\* lines 234-249: encode, INSERT ... RETURNING id, commit
AddDocumentExec(r, encodes) ==
    /\ req[r].pc = "exec"
    /\ req[r].op = "add_document"
    /\ LET t == req[r].table IN
         IF ~encodes \/ ~has_table(t)
         THEN /\ Respond(r, req[r], ServerError)
              /\ UNCHANGED <<tables, assigned>>
         ELSE /\ tables[t].seq < MaxSeq
              /\ LET id == NextId(tables[t]) IN
                   /\ tables' = [tables EXCEPT
                                   ![t].rows = @ \cup {NewRow(id, req[r].content)},
                                   ![t].seq = id]
                   /\ assigned' = [assigned EXCEPT ![t] = @ \cup {id}]
                   /\ Respond(r, req[r], Ok(201, id))
    /\ UNCHANGED <<metadata, nonRag>>

(***************************************************************************)
(* update_document (rag.py 154-178)                                        *)
(***************************************************************************)
UpdateDocumentCheck(r, raw, id, content) ==
    /\ Free(r)
    /\ LET t  == NormalizeName(raw)
           rq == [Start("update_document", t) EXCEPT !.id = id, !.content = content]
       IN  IF ~has_table(t)
           THEN Respond(r, rq, NotFound("collection"))
           ELSE req' = [req EXCEPT ![r] = [rq EXCEPT !.pc = "exec"]]
    /\ UNCHANGED <<tables, metadata, assigned, nonRag>>

UpdateDocumentExec(r, encodes) ==
    /\ req[r].pc = "exec"
    /\ req[r].op = "update_document"
    /\ LET t == req[r].table IN
         IF ~encodes \/ ~has_table(t)
         THEN /\ Respond(r, req[r], ServerError)
              /\ UNCHANGED tables
         ELSE IF \E x \in tables[t].rows : x.id = req[r].id
         THEN /\ tables' = [tables EXCEPT
                              ![t].rows = UpdateRows(@, req[r].id, req[r].content)]
              /\ Respond(r, req[r], Ok(200, req[r].id))
         ELSE /\ Respond(r, req[r], NotFound("document"))
              /\ UNCHANGED tables
    /\ UNCHANGED <<metadata, assigned, nonRag>>

(***************************************************************************)
(* delete_document (rag.py 180-202)                                        *)
(***************************************************************************)
DeleteDocumentCheck(r, raw, id) ==
    /\ Free(r)
    /\ LET t  == NormalizeName(raw)
           rq == [Start("delete_document", t) EXCEPT !.id = id]
       IN  IF ~has_table(t)
           THEN Respond(r, rq, NotFound("collection"))
           ELSE req' = [req EXCEPT ![r] = [rq EXCEPT !.pc = "exec"]]
    /\ UNCHANGED <<tables, metadata, assigned, nonRag>>

DeleteDocumentExec(r) ==
    /\ req[r].pc = "exec"
    /\ req[r].op = "delete_document"
    /\ LET t == req[r].table IN
         IF ~has_table(t)
         THEN /\ Respond(r, req[r], ServerError)
              /\ UNCHANGED tables
         ELSE IF \E x \in tables[t].rows : x.id = req[r].id
         THEN /\ tables' = [tables EXCEPT ![t].rows = DeleteRows(@, req[r].id)]
              /\ Respond(r, req[r], Ok(200, req[r].id))
         ELSE /\ Respond(r, req[r], NotFound("document"))
              /\ UNCHANGED tables
    /\ UNCHANGED <<metadata, assigned, nonRag>>

(***************************************************************************)
(* get_document, list_documents (rag.py 110-152)                           *)
(***************************************************************************)
GetDocumentCheck(r, raw, id) ==
    /\ Free(r)
    /\ LET t  == NormalizeName(raw)
           rq == [Start("get_document", t) EXCEPT !.id = id]
       IN  IF ~has_table(t)
           THEN Respond(r, rq, NotFound("collection"))
           ELSE req' = [req EXCEPT ![r] = [rq EXCEPT !.pc = "exec"]]
    /\ UNCHANGED <<tables, metadata, assigned, nonRag>>

GetDocumentExec(r) ==
    /\ req[r].pc = "exec"
    /\ req[r].op = "get_document"
    /\ LET t == req[r].table IN
         IF ~has_table(t)
         THEN Respond(r, req[r], ServerError)
         ELSE IF \E x \in tables[t].rows : x.id = req[r].id
         THEN LET x == CHOOSE y \in tables[t].rows : y.id = req[r].id
              IN  Respond(r, req[r], Ok(200, [id |-> x.id, content |-> x.content]))
         ELSE Respond(r, req[r], NotFound("document"))
    /\ UNCHANGED <<tables, metadata, assigned, nonRag>>

\* ORDER BY id DESC
RECURSIVE RowsDesc(_)
RowsDesc(rows) ==
    IF rows = {} THEN << >>
    ELSE LET m == CHOOSE x \in rows : \A y \in rows : y.id <= x.id
         IN  <<[id |-> m.id, content |-> m.content]>> \o RowsDesc(rows \ {m})

\* LIMIT :limit OFFSET :offset
Page(s, limit, offset) ==
    IF offset >= Len(s) THEN << >>
    ELSE SubSeq(s, offset + 1, Min(Len(s), offset + limit))

ListArgs == {<<1, 1>>}

ListDocumentsCheck(r, raw, lo) ==
    /\ Free(r)
    /\ LET t  == NormalizeName(raw)
           rq == [Start("list_documents", t) EXCEPT !.arg = lo]
       IN  IF ~has_table(t)
           THEN Respond(r, rq, NotFound("collection"))
           ELSE req' = [req EXCEPT ![r] = [rq EXCEPT !.pc = "exec"]]
    /\ UNCHANGED <<tables, metadata, assigned, nonRag>>

ListDocumentsExec(r) ==
    /\ req[r].pc = "exec"
    /\ req[r].op = "list_documents"
    /\ LET t == req[r].table IN
         IF ~has_table(t) \/ req[r].arg[1] < 0 \/ req[r].arg[2] < 0
         THEN Respond(r, req[r], ServerError)
         ELSE Respond(r, req[r],
                      Ok(200, Page(RowsDesc(tables[t].rows), req[r].arg[1], req[r].arg[2])))
    /\ UNCHANGED <<tables, metadata, assigned, nonRag>>

(***************************************************************************)
(* query_collection (rag.py 355-381)                                       *)
(***************************************************************************)
Dot(u, v) == u[1] * v[1] + u[2] * v[2]

\* 1 - (a <=> q) >= 1 - (b <=> q), <=> the cosine distance, without square roots
SimGE(a, b, q) ==
    LET x == Dot(a, q)
        y == Dot(b, q)
        na == Dot(a, a)
        nb == Dot(b, b)
    IN  CASE x >= 0 /\ y < 0 -> TRUE
          [] x < 0 /\ y >= 0 -> FALSE
          [] x >= 0 /\ y >= 0 -> x * x * nb >= y * y * na
          [] OTHER -> x * x * nb <= y * y * na

\* the orders ORDER BY similarity DESC may return the rows in (ties are the storage's)
RankedOrders(rows, q) ==
    {s \in [1..Cardinality(rows) -> rows] :
        /\ \A i, j \in DOMAIN s : i # j => s[i] # s[j]
        /\ \A i, j \in DOMAIN s : i < j => SimGE(s[i].embedding, s[j].embedding, q)}

QueryTexts == {<<"a">>}
TopKs == {-1, 1}

QueryCollectionCheck(r, raw, query_text, top_k) ==
    /\ Free(r)
    /\ LET t  == NormalizeName(raw)
           rq == [Start("query_collection", t) EXCEPT !.content = query_text, !.arg = <<top_k>>]
       IN  IF ~has_table(t)
           THEN Respond(r, rq, NotFound("collection"))
           ELSE req' = [req EXCEPT ![r] = [rq EXCEPT !.pc = "exec"]]
    /\ UNCHANGED <<tables, metadata, assigned, nonRag>>

\* lines 366-381: encode the query, SELECT ... ORDER BY similarity DESC LIMIT :limit
QueryCollectionExec(r, encodes) ==
    /\ req[r].pc = "exec"
    /\ req[r].op = "query_collection"
    /\ LET t == req[r].table
           top_k == req[r].arg[1]
       IN  IF ~encodes \/ ~has_table(t) \/ top_k < 0
           THEN Respond(r, req[r], ServerError)
           ELSE \E s \in RankedOrders(tables[t].rows,
                                      ParseVector(to_vector_literal(Encode(req[r].content)))) :
                  Respond(r, req[r],
                          Ok(200, [i \in 1..Min(top_k, Len(s)) |-> s[i].id]))
    /\ UNCHANGED <<tables, metadata, assigned, nonRag>>

(***************************************************************************)
(* ingest_file (rag.py 252-353)                                            *)
(***************************************************************************)
Files ==
    { [ext |-> "txt", text |-> <<"a", " ", "a">>],
      [ext |-> "pdf", text |-> <<"a", "\r">>],
      [ext |-> "txt", text |-> <<" ", "\r">>],
      [ext |-> "md",  text |-> <<"a">>] }
ChunkParams == {<<2, 0>>}

\* lines 269-331: existence check, decode by extension, clean, chunk
IngestFileCheck(r, raw, file, chunk_size, overlap) ==
    /\ Free(r)
    /\ LET t       == NormalizeName(raw)
           rq      == Start("ingest_file", t)
           cleaned == Clean(file.text)
           chunks  == Chunker(cleaned, chunk_size, overlap)
       IN  IF ~has_table(t) THEN Respond(r, rq, NotFound("collection"))
           ELSE IF file.ext \notin {"txt", "pdf"} THEN Respond(r, rq, BadRequest("file type"))
           ELSE IF cleaned = << >> THEN Respond(r, rq, BadRequest("empty file"))
           ELSE IF chunks = << >> THEN Respond(r, rq, BadRequest("no chunks"))
           ELSE req' = [req EXCEPT ![r] = [rq EXCEPT !.pc = "insert", !.chunks = chunks]]
    /\ UNCHANGED <<tables, metadata, assigned, nonRag>>

\* lines 335-344: one chunk: encode, INSERT ... RETURNING id inside the open
\* transaction; an exception leaves the `with` block and rolls the transaction back
IngestFileInsert(r, encodes) ==
    /\ req[r].pc = "insert"
    /\ LET t  == req[r].table
           ch == req[r].chunks[Len(req[r].ids) + 1]
       IN  IF ~encodes \/ ~has_table(t)
           THEN /\ Respond(r, req[r], ServerError)
                /\ UNCHANGED <<tables, assigned>>
           ELSE /\ tables[t].seq < MaxSeq
                /\ LET id == NextId(tables[t]) IN
                     /\ tables' = InsertInTx(t, id, ch)
                     /\ assigned' = [assigned EXCEPT ![t] = @ \cup {id}]
                     /\ req' = [req EXCEPT
                          ![r].pending = @ \cup {NewRow(id, ch)},
                          ![r].ids = Append(@, id),
                          ![r].pc = IF Len(req[r].ids) + 1 = Len(req[r].chunks)
                                    THEN "commit" ELSE "insert"]
    /\ UNCHANGED <<metadata, nonRag>>

\* line 345: connection.commit() makes the rows visible, all at once
IngestFileCommit(r) ==
    /\ req[r].pc = "commit"
    /\ LET t == req[r].table IN
         /\ tables' = [tables EXCEPT ![t].rows = @ \cup req[r].pending]
         /\ Respond(r, [req[r] EXCEPT !.pending = {}],
                    Ok(200, [chunks |-> Len(req[r].chunks),
                             inserted |-> Len(req[r].ids),
                             ids |-> req[r].ids]))
    /\ UNCHANGED <<metadata, assigned, nonRag>>

(***************************************************************************)
(* The RAG store: requests in any interleaving                             *)
(***************************************************************************)
Next ==
    \E r \in Requests :
      \/ \E raw \in RawNames : CreateCollectionCheck(r, raw)
      \/ CreateCollectionTable(r)
      \/ \E raw \in RawNames : DeleteCollectionCheck(r, raw)
      \/ DeleteCollectionExec(r)
      \/ \E raw \in DocNames, c \in Contents : AddDocumentCheck(r, raw, c)
      \/ \E e \in BOOLEAN : AddDocumentExec(r, e)
      \/ \E raw \in DocNames, id \in DocIds, c \in Contents : UpdateDocumentCheck(r, raw, id, c)
      \/ \E e \in BOOLEAN : UpdateDocumentExec(r, e)
      \/ \E raw \in DocNames, id \in DocIds : DeleteDocumentCheck(r, raw, id)
      \/ DeleteDocumentExec(r)
      \/ \E raw \in DocNames, id \in DocIds : GetDocumentCheck(r, raw, id)
      \/ GetDocumentExec(r)
      \/ \E raw \in DocNames, lo \in ListArgs : ListDocumentsCheck(r, raw, lo)
      \/ ListDocumentsExec(r)
      \/ \E raw \in DocNames, q \in QueryTexts, k \in TopKs : QueryCollectionCheck(r, raw, q, k)
      \/ \E e \in BOOLEAN : QueryCollectionExec(r, e)
      \/ \E raw \in DocNames, f \in Files, p \in ChunkParams :
            IngestFileCheck(r, raw, f, p[1], p[2])
      \/ \E e \in BOOLEAN : IngestFileInsert(r, e)
      \/ IngestFileCommit(r)

Spec == Init /\ [][Next]_vars

InitChunk ==
    /\ tables = [t \in {} |-> 0]
    /\ metadata = {}
    /\ req = [r \in Requests |-> ReqIdle]
    /\ assigned = [t \in {} |-> {}]
    /\ InitCk
    /\ HistIdle

SpecChunk == InitChunk /\ [][NextChunk]_vars

(***************************************************************************)
(* The history store (history_backend.py); one request at a time           *)
(***************************************************************************)
NoEmbedding == [kind |-> "none", items |-> << >>]

\* format_vector: None stays None, a list becomes the text "[x1,x2,...]"
format_vector(embedding) ==
    IF embedding.kind = "none" THEN NoEmbedding
    ELSE [kind |-> "literal", items |-> to_vector_literal(embedding.items)]

\* the value the vector column holds for what format_vector returned
StoredVector(vec) ==
    IF vec.kind = "none" THEN << >> ELSE ParseVector(vec.items)

HResp(op, args, code, body) == [op |-> op, args |-> args, code |-> code, body |-> body]

ConvRowIds == {c.id : c \in conversations}

\* json_error(...) without any statement having run
HistUnchanged == UNCHANGED <<conversations, chat_messages, hseq>>

ConvIdInputs == {0, 1, 2, 999}
\* request bodies: message, sender, conversation_title, embedding
MessageInputs ==
    { <<<<"h">>, <<"u">>, <<" ", "t">>, [kind |-> "list", items |-> <<1, 2>>]>>,
      <<<<"h">>, <<"u">>, <<" ", "t">>, [kind |-> "list", items |-> <<2, 1>>]>>,
      <<<<"h">>, <<"u">>, <<" ", "t">>, NoEmbedding>>,
      <<<< >>, <<"u">>, << >>, NoEmbedding>>,
      <<<<"h">>, << >>, << >>, NoEmbedding>>,
      <<<<"h">>, <<"u">>, << >>, [kind |-> "str", items |-> << >>]>> }

\* add_message (lines 374-443)
add_message(message, sender, conv_id, conv_title, embedding, connects) ==
    LET R(code, body) == hresp' = HResp("add_message", conv_id, code, body)
        creates == conv_id = 0
        cid == IF creates THEN hseq.conv + 1 ELSE conv_id
        title == IF Strip(conv_title) # << >> THEN Strip(conv_title) ELSE << >>
        mid == hseq.msg + 1
    IN  IF message = << >> \/ sender = << >>
        THEN R(400, "Message and sender are required") /\ HistUnchanged
        ELSE IF embedding.kind \notin {"none", "list"}
        THEN R(400, "Embedding must be a list of numbers") /\ HistUnchanged
        ELSE IF ~connects
        THEN R(500, "Failed to connect to database") /\ HistUnchanged
        ELSE /\ hseq.msg < MaxMsg
             /\ creates => hseq.conv < MaxConv
             /\ IF fkey /\ ~creates /\ cid \notin ConvRowIds
                THEN \* the INSERT violates the foreign key: rollback
                     /\ R(500, "Failed to add message")
                     /\ hseq' = [hseq EXCEPT !.msg = mid]
                     /\ UNCHANGED <<conversations, chat_messages>>
                ELSE /\ conversations' =
                          IF creates THEN conversations \cup {[id |-> cid, title |-> title]}
                          ELSE conversations
                     /\ chat_messages' = chat_messages \cup
                          {[id |-> mid, conversation_id |-> cid, sender |-> sender,
                            message |-> message,
                            embedding |-> StoredVector(format_vector(embedding))]}
                     /\ hseq' = [conv |-> IF creates THEN cid ELSE hseq.conv, msg |-> mid]
                     /\ R(201, [id |-> mid, conversation_id |-> cid])

\* delete_conversation (lines 276-303)
delete_conversation(conv_id, connects) ==
    LET R(code, body) == hresp' = HResp("delete_conversation", conv_id, code, body)
    IN  IF ~connects
        THEN R(500, "Failed to connect to database") /\ HistUnchanged
        ELSE IF conv_id \notin ConvRowIds
        THEN \* both DELETEs ran, no conversation row came back: rollback
             R(404, "Conversation not found") /\ HistUnchanged
        ELSE /\ chat_messages' = {m \in chat_messages : m.conversation_id # conv_id}
             /\ conversations' = {c \in conversations : c.id # conv_id}
             /\ UNCHANGED hseq
             /\ R(200, [deleted |-> TRUE, conversation_id |-> conv_id])

\* bulk_delete_conversations (lines 306-371)
\* the lists of ids a caller may send: empty, repeated ids, present and absent
\* ids mixed, and one list holding a non-number
IdLists ==
    { << >>,
      <<<<"int", 1>>>>,
      <<<<"int", 1>>, <<"int", 1>>>>,
      <<<<"int", 1>>, <<"int", 2>>>>,
      <<<<"int", 2>>, <<"int", 999>>, <<"int", 2>>>>,
      <<<<"str", 0>>>> }

\* int(x) raises for a value that is no number
IsInt(item) == item[1] = "int"
IntOf(item) == item[2]
Range(s) == {s[i] : i \in 1..Len(s)}
Orders(S) ==
    {s \in [1..Cardinality(S) -> S] : \A i, j \in DOMAIN s : i # j => s[i] # s[j]}

SanitizeIdsNoDedupe(ids) == {[i \in 1..Len(ids) |-> IntOf(ids[i])]}

\* conv_ids = list({int(x) for x in ids}): the distinct ids, in the set's order
SanitizeIds(ids) == Orders({IntOf(x) : x \in Range(ids)})

\* lines 348-356: one iteration of the loop over conv_ids
BulkIter(st, cid) ==
    LET found == cid \in {c.id : c \in st.conversations}
    IN  [conversations |-> {c \in st.conversations : c.id # cid},
         chat_messages |-> {m \in st.chat_messages : m.conversation_id # cid},
         deleted       |-> IF found THEN Append(st.deleted, cid) ELSE st.deleted,
         not_found     |-> IF found THEN st.not_found ELSE Append(st.not_found, cid)]

RECURSIVE BulkLoop(_, _)
BulkLoop(st, conv_ids) ==
    IF conv_ids = << >> THEN st
    ELSE BulkLoop(BulkIter(st, Head(conv_ids)), Tail(conv_ids))

bulk_delete_conversations(ids, connects) ==
    LET R(code, body) == hresp' = HResp("bulk_delete_conversations", ids, code, body)
    IN  IF ids = << >>
        THEN R(400, "conversation_ids (non-empty list) is required") /\ HistUnchanged
        ELSE IF \E x \in Range(ids) : ~IsInt(x)
        THEN R(400, "conversation_ids must be integers") /\ HistUnchanged
        ELSE IF ~connects
        THEN R(500, "Failed to connect to database") /\ HistUnchanged
        ELSE \E conv_ids \in SanitizeIds(ids) :
               LET st == BulkLoop([conversations |-> conversations,
                                   chat_messages |-> chat_messages,
                                   deleted |-> << >>, not_found |-> << >>], conv_ids)
               IN  /\ conversations' = st.conversations
                   /\ chat_messages' = st.chat_messages
                   /\ UNCHANGED hseq
                   /\ R(200, [requested |-> conv_ids, deleted |-> st.deleted,
                              not_found |-> st.not_found, errors |-> << >>])

(***************************************************************************)
(* similarity_search (history_backend.py 515-568)                          *)
(***************************************************************************)
MaxTopK == 100

\* line 532: top_k = max(1, min(top_k, 100))
ClampTopK(top_k) == Max(1, Min(top_k, MaxTopK))

\* a <=> q is a number unless one of the two is the zero vector (then NaN)
HasScore(a, q) == Dot(a, a) # 0 /\ Dot(q, q) # 0

\* ORDER BY embedding <=> q ASC: a may come before b; NaN sorts after every number
DistLE(a, b, q) ==
    IF ~HasScore(b, q) THEN TRUE
    ELSE IF ~HasScore(a, q) THEN FALSE
    ELSE SimGE(a, b, q)

HistRankedOrdersUnsorted(rows, q) ==
    {s \in [1..Cardinality(rows) -> rows] : \A i, j \in DOMAIN s : i # j => s[i] # s[j]}

\* the orders the SELECT may return the candidate rows in
HistRankedOrders(rows, q) ==
    {s \in [1..Cardinality(rows) -> rows] :
        /\ \A i, j \in DOMAIN s : i # j => s[i] # s[j]
        /\ \A i, j \in DOMAIN s : i < j => DistLE(s[i].embedding, s[j].embedding, q)}

\* conversation_id of the body: absent (None) or a number
NoScope == [given |-> FALSE, id |-> 0]
ScopeOf(id) == [given |-> TRUE, id |-> id]
\* line 552: if conv_id
Truthy(scope) == scope.given /\ scope.id # 0

\* WHERE embedding IS NOT NULL [AND conversation_id = %s]
HistCandidates(msgs, scope) ==
    {m \in msgs : /\ m.embedding # << >>
                  /\ Truthy(scope) => m.conversation_id = scope.id}

\* ... LIMIT %s
Limit(s, n) == [i \in 1..Min(n, Len(s)) |-> s[i]]

QueryEmbeddings ==
    { [kind |-> "list", items |-> <<1, 2>>],
      [kind |-> "list", items |-> <<0, 0>>],
      [kind |-> "str", items |-> << >>] }
HistTopKs == {-1, 0, 2, 101}
Scopes == {NoScope, ScopeOf(0), ScopeOf(1)}

similarity_search(query_embedding, top_k, scope, connects) ==
    LET args == [query |-> query_embedding, top_k |-> top_k, scope |-> scope]
        R(code, body) == hresp' = HResp("similarity_search", args, code, body)
        q == StoredVector(format_vector(query_embedding))
    IN  /\ HistUnchanged
        /\ IF query_embedding.kind # "list"
           THEN R(400, "query_embedding must be a list of numbers")
           ELSE IF ~connects
           THEN R(500, "Failed to connect to database")
           ELSE \E s \in HistRankedOrders(HistCandidates(chat_messages, scope), q) :
                  LET rows == Limit(s, ClampTopK(top_k))
                  IN  R(200, [results |-> [i \in DOMAIN rows |->
                                             [id |-> rows[i].id,
                                              conversation_id |-> rows[i].conversation_id]],
                              count |-> Len(rows)])

SimilaritySearch ==
    /\ \E q \in QueryEmbeddings, k \in HistTopKs, sc \in Scopes, connects \in BOOLEAN :
          similarity_search(q, k, sc, connects)
    /\ UNCHANGED <<ragVars, ck, fkey, hreq, rk>>

AddMessage ==
    /\ \E b \in MessageInputs, c \in ConvIdInputs, connects \in BOOLEAN :
          add_message(b[1], b[2], c, b[3], b[4], connects)
    /\ UNCHANGED <<ragVars, ck, fkey, hreq, rk>>

DeleteConversation ==
    /\ \E c \in ConvIdInputs \ {0}, connects \in BOOLEAN : delete_conversation(c, connects)
    /\ UNCHANGED <<ragVars, ck, fkey, hreq, rk>>

BulkDeleteConversations ==
    /\ \E ids \in IdLists, connects \in BOOLEAN : bulk_delete_conversations(ids, connects)
    /\ UNCHANGED <<ragVars, ck, fkey, hreq, rk>>

NextHist == AddMessage \/ DeleteConversation \/ BulkDeleteConversations

\* the schema is not part of the repository: with or without the foreign key
InitHist ==
    /\ tables = [t \in {} |-> 0]
    /\ metadata = {}
    /\ req = [r \in Requests |-> ReqIdle]
    /\ assigned = [t \in {} |-> {}]
    /\ ck = CkIdle
    /\ conversations = {}
    /\ chat_messages = {}
    /\ hseq = [conv |-> 0, msg |-> 0]
    /\ fkey \in BOOLEAN
    /\ hresp = NoHResp
    /\ hreq = [h \in HRequests |-> HReqIdle]
    /\ rk = RkIdle

SpecHist == InitHist /\ [][NextHist]_vars

\* messages are stored and searched
NextSearch == AddMessage \/ SimilaritySearch

SpecSearch == InitHist /\ [][NextSearch]_vars

(***************************************************************************)
(* The ranking of the two similarity queries, run on its own: the stored   *)
(* rows and the query are drawn at the start, then the SELECT of           *)
(* query_collection (rag.py 372-377) or of similarity_search               *)
(* (history_backend.py 540-558) is applied.                                *)
(***************************************************************************)
\* texts the RAG store embeds: their vectors are (1,1), (2,1), (1,2), (2,2)
RankTexts == {<< >>, <<"a">>, <<"b">>, <<"a", "b">>}
\* embedding columns of chat_messages: NULL, or what a caller sent
RankVectors == {<< >>, <<1, 2>>, <<2, 4>>, <<2, 1>>, <<0, 0>>}
RankQueries == {<<1, 2>>, <<0, 0>>}

RagStores ==
    UNION {{{NewRow(i, f[i]) : i \in 1..n} : f \in [1..n -> RankTexts]} : n \in 0..MaxRows}

HistStores ==
    UNION {{{[id |-> i, conversation_id |-> 1, sender |-> <<"u">>, message |-> <<"h">>,
              embedding |-> f[i]] : i \in 1..n} : f \in [1..n -> RankVectors]} :
           n \in 0..MaxRows}

InitRk ==
    rk \in
      {[RkIdle EXCEPT !.pc = "ready", !.store = "rag", !.rows = rows, !.top_k = k,
                      !.query = ParseVector(to_vector_literal(Encode(t)))] :
          rows \in RagStores, t \in RankTexts, k \in {1, MaxRows}}
      \cup
      {[RkIdle EXCEPT !.pc = "ready", !.store = "history", !.rows = rows, !.top_k = k,
                      !.scope = NoScope,
                      !.query = StoredVector(format_vector([kind |-> "list", items |-> q]))] :
          rows \in HistStores, q \in RankQueries, k \in {0, MaxTopK + 1}}

\* rag.py 372-377: ORDER BY similarity DESC LIMIT :limit
RankRag ==
    /\ rk.pc = "ready" /\ rk.store = "rag"
    /\ \E s \in RankedOrders(rk.rows, rk.query) :
          rk' = [rk EXCEPT !.pc = "done", !.results = Limit(s, rk.top_k)]
    /\ UNCHANGED <<ragVars, ck, conversations, chat_messages, hseq, fkey, hresp, hreq>>

\* history_backend.py 532-558: clamp, WHERE, ORDER BY embedding <=> q ASC LIMIT
RankHistory ==
    /\ rk.pc = "ready" /\ rk.store = "history"
    /\ \E s \in HistRankedOrders(HistCandidates(rk.rows, rk.scope), rk.query) :
          rk' = [rk EXCEPT !.pc = "done", !.results = Limit(s, ClampTopK(rk.top_k))]
    /\ UNCHANGED <<ragVars, ck, conversations, chat_messages, hseq, fkey, hresp, hreq>>

NextRank == RankRag \/ RankHistory

InitRank ==
    /\ tables = [t \in {} |-> 0]
    /\ metadata = {}
    /\ req = [r \in Requests |-> ReqIdle]
    /\ assigned = [t \in {} |-> {}]
    /\ ck = CkIdle
    /\ conversations = {}
    /\ chat_messages = {}
    /\ hseq = [conv |-> 0, msg |-> 0]
    /\ fkey = FALSE
    /\ hresp = NoHResp
    /\ hreq = [h \in HRequests |-> HReqIdle]
    /\ InitRk

SpecRank == InitRank /\ [][NextRank]_vars

(***************************************************************************)
(* The history store statement by statement: each request opens its own    *)
(* connection, runs its statements in one transaction (READ COMMITTED) and *)
(* commits or rolls back; two requests are served at the same time.        *)
(***************************************************************************)
HFree(h) == hreq[h].pc = "done"
OthersOf(h) == HRequests \ {h}

\* get_db_connection() returned a connection: the handler's locals
HStart(op, cid) == [HReqIdle EXCEPT !.op = op, !.conv_id = cid, !.conn = "open"]

\* the response leaves: the slot keeps the operation, the status code and what
\* became of the connection
HAnswer(rq, code, conn) ==
    [HReqIdle EXCEPT !.op = rq.op, !.code = code, !.conn = conn]

\* json_error(...) before get_db_connection(), or get_db_connection() returned None
HRefuse(h, op, cid, code) ==
    hreq' = [hreq EXCEPT ![h] = [HReqIdle EXCEPT !.op = op, !.code = code]]

\* except Exception: conn.rollback(); conn.close(); return json_error(..., 500).
\* When rollback() raises, close() is not reached and the exception leaves the
\* handler (Flask answers 500).
HExcept(h, rollbackRaises) ==
    hreq' = [hreq EXCEPT ![h] =
                HAnswer(hreq[h], 500, IF rollbackRaises THEN "open" ELSE "closed")]

\* row locks: a conversations row another open transaction has deleted or updated
ConvLockedByOther(h, cid) ==
    \E q \in OthersOf(h) :
        cid \in hreq[q].delConvs \cup {c.id : c \in hreq[q].updConvs}
\* messages of the conversation another open transaction has deleted
MsgsLockedByOther(h, cid) ==
    \E q \in OthersOf(h) : \E m \in hreq[q].delMsgs : m.conversation_id = cid
\* with the foreign key, an open transaction that inserted a message holds a
\* share lock on the conversations row it refers to
ConvReferencedByOther(h, cid) ==
    fkey /\ \E q \in OthersOf(h) : \E m \in hreq[q].insMsgs : m.conversation_id = cid

\* request bodies of add_message in this specification: one valid, one without message
TxBodies ==
    { <<<<"h">>, <<"u">>, <<" ", "t">>, NoEmbedding>>,
      <<<< >>, <<"u">>, << >>, NoEmbedding>> }
TxIdLists ==
    { <<<<"int", 1>>>>,
      <<<<"int", 1>>, <<"int", 2>>>>,
      <<<<"str", 0>>>> }
TxConvIds == {0, 1, 999}

\* add_message, lines 386-403: the body checks and the connection
HAddMessageStart(h, body, cid, connects) ==
    /\ HFree(h)
    /\ IF body[1] = << >> \/ body[2] = << >>
       THEN HRefuse(h, "add_message", cid, 400)
       ELSE IF body[4].kind \notin {"none", "list"}
       THEN HRefuse(h, "add_message", cid, 400)
       ELSE IF ~connects
       THEN HRefuse(h, "add_message", cid, 500)
       ELSE hreq' = [hreq EXCEPT ![h] =
                        [HStart("add_message", cid) EXCEPT
                            !.title = body[3],
                            !.pc = IF cid = 0 THEN "ins_conv" ELSE "ins_msg"]]
    /\ UNCHANGED <<ragVars, ck, conversations, chat_messages, hseq, fkey, hresp, rk>>

\* lines 407-412: INSERT INTO conversations ... RETURNING id
HInsertConversation(h, raises, rollbackRaises) ==
    /\ hreq[h].pc = "ins_conv"
    /\ IF raises
       THEN HExcept(h, rollbackRaises) /\ UNCHANGED hseq
       ELSE /\ hseq.conv < MaxConv
            /\ LET cid == hseq.conv + 1
                    title == IF Strip(hreq[h].title) # << >>
                             THEN Strip(hreq[h].title) ELSE << >>
               IN /\ hseq' = [hseq EXCEPT !.conv = cid]
                  /\ hreq' = [hreq EXCEPT ![h].conv_id = cid,
                                          ![h].insConvs = @ \cup {[id |-> cid, title |-> title]},
                                          ![h].pc = "ins_msg"]
    /\ UNCHANGED <<ragVars, ck, conversations, chat_messages, fkey, hresp, rk>>

\* lines 414-426: INSERT INTO chat_messages ... RETURNING id, created_at
HInsertMessage(h, raises, rollbackRaises) ==
    /\ hreq[h].pc = "ins_msg"
    /\ LET cid == hreq[h].conv_id
           own == cid \in {c.id : c \in hreq[h].insConvs}
           mid == hseq.msg + 1
       IN  IF raises
           THEN HExcept(h, rollbackRaises) /\ UNCHANGED hseq
           ELSE /\ hseq.msg < MaxMsg
                /\ fkey /\ ~own => ~ConvLockedByOther(h, cid)
                /\ hseq' = [hseq EXCEPT !.msg = mid]
                /\ IF fkey /\ ~own /\ cid \notin ConvRowIds
                   THEN \* the foreign key is violated
                        HExcept(h, rollbackRaises)
                   ELSE hreq' = [hreq EXCEPT
                          ![h].insMsgs = @ \cup
                             {[id |-> mid, conversation_id |-> cid, sender |-> <<"u">>,
                               message |-> <<"h">>,
                               embedding |-> StoredVector(format_vector(NoEmbedding))]},
                          ![h].pc = "commit"]
    /\ UNCHANGED <<ragVars, ck, conversations, chat_messages, fkey, hresp, rk>>

\* the id the delete statements are run for: the request's, or the loop's cid
CurId(h) ==
    IF hreq[h].op = "bulk_delete_conversations" THEN Head(hreq[h].todo) ELSE hreq[h].conv_id

\* delete_conversation, lines 281-285: the connection
HDeleteConversationStart(h, cid, connects) ==
    /\ HFree(h)
    /\ IF ~connects
       THEN HRefuse(h, "delete_conversation", cid, 500)
       ELSE hreq' = [hreq EXCEPT ![h] =
                        [HStart("delete_conversation", cid) EXCEPT !.pc = "del_msgs"]]
    /\ UNCHANGED <<ragVars, ck, conversations, chat_messages, hseq, fkey, hresp, rk>>

\* bulk_delete_conversations, lines 329-347: the checks, the ids, the connection
HBulkDeleteStart(h, ids, connects) ==
    /\ HFree(h)
    /\ IF ids = << >>
       THEN HRefuse(h, "bulk_delete_conversations", 0, 400)
       ELSE IF \E x \in Range(ids) : ~IsInt(x)
       THEN HRefuse(h, "bulk_delete_conversations", 0, 400)
       ELSE IF ~connects
       THEN HRefuse(h, "bulk_delete_conversations", 0, 500)
       ELSE \E conv_ids \in SanitizeIds(ids) :
              hreq' = [hreq EXCEPT ![h] =
                         [HStart("bulk_delete_conversations", 0) EXCEPT
                             !.todo = conv_ids, !.pc = "del_msgs"]]
    /\ UNCHANGED <<ragVars, ck, conversations, chat_messages, hseq, fkey, hresp, rk>>

\* lines 287 and 350: DELETE FROM chat_messages WHERE conversation_id = %s
HDeleteMessages(h, raises, rollbackRaises) ==
    /\ hreq[h].pc = "del_msgs"
    /\ LET cid == CurId(h) IN
         IF raises
         THEN HExcept(h, rollbackRaises)
         ELSE /\ ~MsgsLockedByOther(h, cid)
              /\ hreq' = [hreq EXCEPT
                            ![h].delMsgs = @ \cup
                               {m \in chat_messages : m.conversation_id = cid},
                            ![h].pc = "del_conv"]
    /\ UNCHANGED <<ragVars, ck, conversations, chat_messages, hseq, fkey, hresp, rk>>

\* lines 288-294 and 351-356: DELETE FROM conversations WHERE id = %s RETURNING id,
\* then what the handler does with the row
HDeleteConversationRow(h, raises, rollbackRaises) ==
    /\ hreq[h].pc = "del_conv"
    /\ LET cid == CurId(h)
           row == cid \in ConvRowIds /\ cid \notin hreq[h].delConvs
           referenced == \E m \in chat_messages \ hreq[h].delMsgs : m.conversation_id = cid
           bulk == hreq[h].op = "bulk_delete_conversations"
       IN  IF raises
           THEN HExcept(h, rollbackRaises)
           ELSE /\ row => ~ConvLockedByOther(h, cid) /\ ~ConvReferencedByOther(h, cid)
                /\ IF row /\ fkey /\ referenced
                   THEN \* the foreign key is violated: a committed message refers to the row
                        HExcept(h, rollbackRaises)
                   ELSE IF bulk
                   THEN hreq' = [hreq EXCEPT
                          ![h].delConvs = IF row THEN @ \cup {cid} ELSE @,
                          ![h].deleted = IF row THEN Append(@, cid) ELSE @,
                          ![h].not_found = IF row THEN @ ELSE Append(@, cid),
                          ![h].todo = Tail(@),
                          ![h].pc = IF Tail(hreq[h].todo) = << >> THEN "commit" ELSE "del_msgs"]
                   ELSE IF row
                   THEN hreq' = [hreq EXCEPT ![h].delConvs = @ \cup {cid}, ![h].pc = "commit"]
                   ELSE \* conn.rollback(); cur.close(); conn.close(); 404
                        IF rollbackRaises THEN HExcept(h, TRUE)
                        ELSE hreq' = [hreq EXCEPT ![h] = HAnswer(hreq[h], 404, "closed")]
    /\ UNCHANGED <<ragVars, ck, conversations, chat_messages, hseq, fkey, hresp, rk>>

\* update_conversation, lines 243-250: the title check and the connection
TxTitles == {<< >>, <<"n">>}
HUpdateConversationStart(h, cid, title, connects) ==
    /\ HFree(h)
    /\ IF Strip(title) = << >>
       THEN HRefuse(h, "update_conversation", cid, 400)
       ELSE IF ~connects
       THEN HRefuse(h, "update_conversation", cid, 500)
       ELSE hreq' = [hreq EXCEPT ![h] =
                        [HStart("update_conversation", cid) EXCEPT
                            !.title = title, !.pc = "upd_conv"]]
    /\ UNCHANGED <<ragVars, ck, conversations, chat_messages, hseq, fkey, hresp, rk>>

\* lines 252-260: UPDATE conversations SET title = %s WHERE id = %s RETURNING ...
HUpdateConversationRow(h, raises, rollbackRaises) ==
    /\ hreq[h].pc = "upd_conv"
    /\ LET cid == hreq[h].conv_id
           row == cid \in ConvRowIds
       IN  IF raises
           THEN HExcept(h, rollbackRaises)
           ELSE /\ row => ~ConvLockedByOther(h, cid)
                /\ IF row
                   THEN hreq' = [hreq EXCEPT
                          ![h].updConvs = @ \cup {[id |-> cid, title |-> Strip(hreq[h].title)]},
                          ![h].pc = "commit"]
                   ELSE IF rollbackRaises THEN HExcept(h, TRUE)
                        ELSE hreq' = [hreq EXCEPT ![h] = HAnswer(hreq[h], 404, "closed")]
    /\ UNCHANGED <<ragVars, ck, conversations, chat_messages, hseq, fkey, hresp, rk>>

\* conn.commit(); cur.close(); conn.close(); return jsonify(...)
HCommit(h, raises, rollbackRaises) ==
    /\ hreq[h].pc = "commit"
    /\ IF raises
       THEN HExcept(h, rollbackRaises) /\ UNCHANGED <<conversations, chat_messages>>
       ELSE /\ conversations' =
                 {IF \E u \in hreq[h].updConvs : u.id = c.id
                  THEN CHOOSE u \in hreq[h].updConvs : u.id = c.id ELSE c :
                     c \in {x \in conversations : x.id \notin hreq[h].delConvs}}
                 \cup hreq[h].insConvs
            /\ chat_messages' = (chat_messages \ hreq[h].delMsgs) \cup hreq[h].insMsgs
            /\ hreq' = [hreq EXCEPT ![h] =
                          HAnswer(hreq[h],
                                  IF hreq[h].op = "add_message" THEN 201 ELSE 200, "closed")]
    /\ UNCHANGED <<ragVars, ck, hseq, fkey, hresp, rk>>

NextHistTx ==
    \/ \E h \in HRequests, connects \in BOOLEAN :
          \/ \E body \in TxBodies, cid \in TxConvIds : HAddMessageStart(h, body, cid, connects)
          \/ \E cid \in TxConvIds \ {0} : HDeleteConversationStart(h, cid, connects)
          \/ \E ids \in TxIdLists : HBulkDeleteStart(h, ids, connects)
          \/ \E cid \in TxConvIds \ {0}, title \in TxTitles :
                HUpdateConversationStart(h, cid, title, connects)
    \/ \E h \in HRequests, raises \in BOOLEAN, rollbackRaises \in BOOLEAN :
          \/ HInsertConversation(h, raises, rollbackRaises)
          \/ HInsertMessage(h, raises, rollbackRaises)
          \/ HDeleteMessages(h, raises, rollbackRaises)
          \/ HDeleteConversationRow(h, raises, rollbackRaises)
          \/ HUpdateConversationRow(h, raises, rollbackRaises)
          \/ HCommit(h, raises, rollbackRaises)

SpecHistTx == InitHist /\ [][NextHistTx]_vars

(***************************************************************************)
(* Claims                                                                  *)
(***************************************************************************)
\* slot r has just dealt with a request: arrived, moved on or answered
Stepped(r) == req'[r] # req[r]
\* a request arrives in slot r (its first step: normalization and the checks)
Arrives(r) == Free(r) /\ Stepped(r)
\* slot r answers the request it was executing
Answers(r) == ~Free(r) /\ req'[r].pc = "done"
RowIds(rows) == {x.id : x \in rows}
DocOps == {"add_document", "update_document", "delete_document", "get_document",
           "list_documents", "query_collection", "ingest_file"}

\* C1: every stored document (and every row an open ingest transaction holds)
\* has an embedding, and it is the embedding provider's output for the row's
\* current content.
C1_EmbeddingNeverStale ==
    /\ \A t \in DOMAIN tables : \A x \in tables[t].rows :
          x.embedding # << >> /\ x.embedding = Encode(x.content)
    /\ \A r \in Requests : \A x \in req[r].pending :
          x.embedding # << >> /\ x.embedding = Encode(x.content)

\* an ingest stored ids 1 and 2, and an update then rewrote document 2 to ""
C1_Witness ==
    \E r1, r2 \in Requests :
        /\ req[r1].op = "ingest_file" /\ req[r1].resp.kind = "ok" /\ req[r1].ids = <<1, 2>>
        /\ req[r2].op = "update_document" /\ req[r2].resp.kind = "ok" /\ req[r2].id = 2
        /\ \E t \in DOMAIN tables : \E x \in tables[t].rows :
              x.id = 2 /\ x.content = << >> /\ x.embedding = <<1, 1>>

\* a name in normalized form: no upper-case letter, no space
IsNormalized(n) == \A i \in 1..Len(n) : n[i] \notin {"A", "B", " "}
\* the normalized form, stated on its own: lower case, "_" for " "
Canon(n) ==
    [i \in 1..Len(n) |->
        CASE n[i] \in {"A", "a"} -> "a"
          [] n[i] \in {"B", "b"} -> "b"
          [] n[i] \in {" ", "_"} -> "_"
          [] OTHER -> n[i]]

C2_CatalogNormalized ==
    /\ \A n \in list_collections : IsNormalized(n)
    /\ \A n1, n2 \in list_collections : Canon(n1) = Canon(n2) => n1 = n2

C2_CreateExisting ==
    \A r \in Requests :
        (Arrives(r) /\ req'[r].op = "create_collection" /\ has_table(req'[r].table))
        => /\ req'[r].pc = "done"
           /\ req'[r].resp = AlreadyExists
           /\ UNCHANGED <<tables, metadata>>

\* C2: the catalog holds normalized names only, at most one per normalized
\* name, and a create_collection that finds its normalized name in the catalog
\* answers AlreadyExists and changes nothing.
C2_CreateNormalizesAndRejectsExisting ==
    []C2_CatalogNormalized /\ [][C2_CreateExisting]_vars

\* 'A ' was created as a_, and a later create ('a_' or 'a ') was refused
C2_Witness ==
    \E r1, r2 \in Requests :
        /\ r1 # r2
        /\ req[r1].op = "create_collection" /\ req[r1].resp.kind = "ok"
        /\ req[r2].op = "create_collection" /\ req[r2].resp = AlreadyExists
        /\ list_collections = {<<"a", "_">>}

C3_DropAbsent ==
    \A r \in Requests :
        (Arrives(r) /\ req'[r].op = "delete_collection" /\ ~has_table(req'[r].table))
        => /\ req'[r].pc = "done"
           /\ req'[r].resp = NotFound("collection")
           /\ UNCHANGED <<tables, metadata>>

C3_DropInOneStep ==
    \A r \in Requests :
        (req[r].op = "delete_collection" /\ Answers(r))
        => \/ /\ req'[r].resp.kind = "ok"
              /\ has_table(req[r].table)
              /\ req[r].table \notin DOMAIN tables'
              /\ \A n \in DOMAIN tables' : n \in DOMAIN tables /\ tables'[n] = tables[n]
           \/ /\ req'[r].resp.kind # "ok"
              /\ UNCHANGED tables

C3_AbsentIsNotFound ==
    \A r \in Requests :
        (Arrives(r) /\ req'[r].op \in DocOps /\ ~has_table(req'[r].table))
        => /\ req'[r].pc = "done"
           /\ req'[r].resp = NotFound("collection")
           /\ UNCHANGED <<tables, metadata>>

\* C3: delete_collection of an absent name answers NotFound and changes
\* nothing; of an existing one it removes the table with all rows in a single
\* step (no step leaves the table with part of its rows); while the name is
\* absent every document operation arriving for it answers NotFound.
C3_DropIsAtomic ==
    [][C3_DropAbsent /\ C3_DropInOneStep /\ C3_AbsentIsNotFound]_vars

\* a collection that held documents was dropped, a document operation on it
\* was answered NotFound
C3_Witness ==
    \E r1, r2 \in Requests :
        /\ req[r1].op = "delete_collection" /\ req[r1].resp.kind = "ok"
        /\ req[r2].op \in DocOps /\ req[r2].resp = NotFound("collection")
        /\ req[r1].table \in metadata /\ ~has_table(req[r1].table)
        /\ assigned[req[r1].table] # {}

C4_Success ==
    \A r \in Requests :
        (req[r].op = "ingest_file" /\ Answers(r) /\ req'[r].resp.kind = "ok")
        => LET t == req[r].table
               b == req'[r].resp.body
           IN  /\ b.chunks = Len(req[r].chunks)
               /\ b.inserted = b.chunks
               /\ Len(b.ids) = b.chunks
               /\ \A i, j \in 1..Len(b.ids) : i < j => b.ids[i] < b.ids[j]
               /\ tables'[t].rows =
                    tables[t].rows \cup
                      {NewRow(b.ids[i], req[r].chunks[i]) : i \in 1..Len(b.ids)}
               /\ \A i \in 1..Len(b.ids) : b.ids[i] \notin RowIds(tables[t].rows)

C4_Failure ==
    \A r \in Requests :
        (req[r].op = "ingest_file" /\ Answers(r) /\ req'[r].resp.kind # "ok")
        => UNCHANGED tables

\* no row of an ingest that is still running, or that has failed, is stored
C4_NothingPartial ==
    \A r \in Requests :
        (req[r].op = "ingest_file" /\ (~Free(r) \/ req[r].resp.kind # "ok"))
        => \A t \in DOMAIN tables :
              t = req[r].table =>
                \A i \in 1..Len(req[r].ids) : req[r].ids[i] \notin RowIds(tables[t].rows)

\* C4: an ingest that succeeds has stored exactly one row per chunk, ids in
\* chunk order, and reports that count; an ingest that fails, or has not yet
\* committed, has stored none of its chunks.
C4_IngestAllOrNothing ==
    []C4_NothingPartial /\ [][C4_Success /\ C4_Failure]_vars

\* an ingest failed after its first chunk had been inserted: no row is stored
C4_Witness ==
    \E r \in Requests :
        /\ req[r].op = "ingest_file" /\ req[r].resp = ServerError
        /\ req[r].ids = <<1>>
        /\ has_table(req[r].table) /\ tables[req[r].table].rows = {}

\* C5: every stored document has non-empty content (as the claim states it;
\* add_document and update_document store "" as they would any other text).
C5_NonEmptyContent ==
    \A t \in DOMAIN tables : \A x \in tables[t].rows : x.content # << >>

C8_UniqueIds ==
    \A t \in DOMAIN tables :
        LET all == tables[t].rows \cup
                   UNION {req[r].pending : r \in {q \in Requests : req[q].table = t}}
        IN  /\ \A x, y \in all : x.id = y.id => x = y
            /\ RowIds(all) \subseteq assigned[t]

C8_Monotonic ==
    \A t \in DOMAIN tables \cap DOMAIN tables' :
        \A i \in assigned'[t] \ assigned[t] : \A j \in assigned[t] : i > j

C8_ReturnedIdIsNew ==
    \A r \in Requests :
        (req[r].op = "add_document" /\ Answers(r) /\ req'[r].resp.kind = "ok")
        => LET t == req[r].table
               id == req'[r].resp.body
           IN  /\ id \notin assigned[t]
               /\ \A j \in assigned[t] : id > j
               /\ id \in RowIds(tables'[t].rows)

\* C8: ids are unique within a collection, and every id an insert (add_document
\* or a chunk of ingest_file) is given is greater than every id the collection
\* has handed out before, deleted or not.
C8_IdsUniqueAndMonotonic ==
    []C8_UniqueIds /\ [][C8_Monotonic /\ C8_ReturnedIdIsNew]_vars

\* one slot only created the collection; the other added document 1, deleted
\* it and added again: the new document is 2, and 1 is not back
C8_Witness ==
    \E r1, r2 \in Requests :
        /\ req[r1].op = "create_collection" /\ req[r1].resp.kind = "ok"
        /\ req[r2].op = "add_document" /\ req[r2].resp = Ok(201, 2)
        /\ has_table(req[r2].table)
        /\ RowIds(tables[req[r2].table].rows) = {2}

C9_Delete ==
    \A r \in Requests :
        (req[r].op = "delete_document" /\ Answers(r) /\ has_table(req[r].table))
        => LET t == req[r].table
               present == req[r].id \in RowIds(tables[t].rows)
           IN  /\ present =>
                    /\ req'[r].resp = Ok(200, req[r].id)
                    /\ tables' = [tables EXCEPT
                                    ![t].rows = {x \in @ : x.id # req[r].id}]
                    /\ Cardinality(tables'[t].rows) = Cardinality(tables[t].rows) - 1
               /\ ~present =>
                    /\ req'[r].resp = NotFound("document")
                    /\ UNCHANGED tables

C9_SecondDelete ==
    \A r, q \in Requests :
        (/\ req[r].op = "delete_document" /\ Answers(r) /\ has_table(req[r].table)
         /\ Free(q) /\ req[q].op = "delete_document" /\ req[q].resp.kind = "ok"
         /\ req[q].table = req[r].table /\ req[q].id = req[r].id)
        => req'[r].resp = NotFound("document")

\* C9: delete_document of an id the collection does not hold answers NotFound
\* and leaves the rows as they were; of an id it holds it removes that row and
\* no other; once an id was deleted, deleting it again answers NotFound.
C9_DeleteDocument == [][C9_Delete /\ C9_SecondDelete]_vars

\* document 1 was deleted, the second delete of 1 was answered NotFound, and
\* document 2 is still there
C9_Witness ==
    \E r1, r2 \in Requests :
        /\ r1 # r2
        /\ req[r1].op = "delete_document" /\ req[r1].resp = Ok(200, 1)
        /\ req[r2].op = "delete_document" /\ req[r2].resp = NotFound("document")
        /\ req[r2].id = 1
        /\ has_table(req[r1].table)
        /\ RowIds(tables[req[r1].table].rows) = {2}

CeilDiv(a, b) == (a + b - 1) \div b

\* C6: whatever chunk_size and overlap were given, after clamping the loop
\* moves start forward by chunk_size - overlap >= 1 in every iteration that
\* continues, and it runs at most ceil(L / (chunk_size - overlap)) iterations.
C6_ChunkLoopTerminates ==
    ck.pc \in {"loop", "done"} =>
        LET L    == Len(ck.cleaned)
            step == ck.c - ck.o
            w    == ck.st.wins
        IN  /\ step >= 1
            /\ ck.c >= 1 /\ ck.o >= 0
            /\ \A i \in 1..(Len(w) - 1) : w[i + 1][1] - w[i][1] = step
            /\ Len(w) <= CeilDiv(L, step)
            /\ LoopRunning(ck.cleaned, ck.st) =>
                  /\ Len(w) < CeilDiv(L, step)
                  /\ ck.st.start = Len(w) * step
            /\ ck.pc = "done" => ck.st.done

\* an overlap not smaller than chunk_size was clamped, and the loop ended
\* after exactly ceil(L / step) iterations, three or more
C6_Witness ==
    /\ ck.pc = "done"
    /\ ck.chunk_size > 0 /\ ck.overlap >= ck.chunk_size
    /\ Len(ck.st.wins) >= 3
    /\ Len(ck.st.wins) = CeilDiv(Len(ck.cleaned), ck.c - ck.o)

ValidParams == ck.chunk_size > 0 /\ ck.overlap >= 0 /\ ck.overlap < ck.chunk_size
Covered(p, spans) == \E k \in 1..Len(spans) : spans[k][1] <= p /\ p < spans[k][2]

\* C7 as stated: the emitted chunks cover every character position, the first
\* begins at position 0, the last ends at the last position, and consecutive
\* chunks overlap by exactly the effective overlap.
C7_ChunksCoverText ==
    (ck.pc = "done" /\ ValidParams) =>
        LET L == Len(ck.cleaned)
            s == ck.st.spans
        IN  /\ \A p \in 0..(L - 1) : Covered(p, s)
            /\ s # << >> /\ s[1][1] = 0 /\ s[Len(s)][2] = L
            /\ \A k \in 1..(Len(s) - 1) : s[k][2] - s[k + 1][1] = ck.o

\* C7 as amended: the windows cover the text from position 0 to the last
\* position and consecutive windows overlap by exactly the effective overlap;
\* every emitted chunk is its window without the surrounding whitespace, in
\* window order, so every non-whitespace character position is in an emitted
\* chunk, the first chunk begins at 0 and the last ends at the last position.
C7_WindowsCoverText ==
    (ck.pc = "done" /\ ValidParams) =>
        LET L == Len(ck.cleaned)
            s == ck.st.spans
            w == ck.st.wins
        IN  /\ w # << >> /\ w[1][1] = 0 /\ w[Len(w)][2] = L
            /\ \A k \in 1..(Len(w) - 1) : w[k][2] - w[k + 1][1] = ck.o
            /\ \A p \in 0..(L - 1) : Covered(p, w)
            /\ \A p \in 0..(L - 1) : ~IsSpace(ck.cleaned[p + 1]) => Covered(p, s)
            /\ s # << >> /\ s[1][1] = 0 /\ s[Len(s)][2] = L
            /\ Len(s) = Len(ck.st.chunks)
            /\ \A k \in 1..Len(s) :
                  /\ ck.st.chunks[k] = Slice(ck.cleaned, s[k][1], s[k][2])
                  /\ ck.st.chunks[k] # << >>
                  /\ \E i \in 1..Len(w) : w[i][1] <= s[k][1] /\ s[k][2] <= w[i][2]
            /\ \A k \in 1..(Len(s) - 1) : s[k][1] <= s[k + 1][1]

\* overlapping windows, one of them trimmed: a whitespace position is in no
\* emitted chunk
C7_Witness ==
    /\ ck.pc = "done" /\ ValidParams /\ ck.o > 0
    /\ Len(ck.st.wins) >= 2
    /\ \E p \in 0..(Len(ck.cleaned) - 1) : ~Covered(p, ck.st.spans)

BulkAnswered ==
    /\ hresp'.op = "bulk_delete_conversations"
    /\ hresp'.code = 200
    /\ <<conversations, chat_messages, hresp>>' # <<conversations, chat_messages, hresp>>

C10_Bulk ==
    BulkAnswered =>
        LET R == {IntOf(x) : x \in Range(hresp'.args)}
            D == Range(hresp'.body.deleted)
            N == Range(hresp'.body.not_found)
        IN  /\ D \cap N = {}
            /\ D \cup N = R
            /\ Len(hresp'.body.deleted) = Cardinality(D)
            /\ Len(hresp'.body.not_found) = Cardinality(N)
            /\ D = R \cap ConvRowIds
            /\ \A c \in conversations' : c.id \notin R
            /\ \A m \in chat_messages' : m.conversation_id \notin R
            /\ conversations' = {c \in conversations : c.id \notin R}
            /\ chat_messages' = {m \in chat_messages : m.conversation_id \notin R}

C10_Repeat ==
    (/\ BulkAnswered
     /\ hresp.op = "bulk_delete_conversations" /\ hresp.code = 200
     /\ hresp'.args = hresp.args)
    => /\ hresp'.body.deleted = << >>
       /\ Range(hresp'.body.not_found) = {IntOf(x) : x \in Range(hresp.args)}

\* C10: a bulk delete answers with deleted and not_found disjoint, together the
\* requested ids, deleted being the requested conversations that existed; then
\* none of the requested conversations nor their messages exist and the others
\* are as before; the same request repeated deletes nothing and finds none.
C10_BulkDelete == [][C10_Bulk /\ C10_Repeat]_vars

\* [2, 999, 2] was requested: conversation 2 deleted once, 999 not found,
\* conversation 1 and its message still stored
C10_Witness ==
    /\ hresp.op = "bulk_delete_conversations" /\ hresp.code = 200
    /\ Len(hresp.args) = 3
    /\ hresp.body.deleted = <<2>>
    /\ hresp.body.not_found = <<999>>
    /\ ConvRowIds = {1}
    /\ \E m \in chat_messages : m.conversation_id = 1

\* C11: every stored message belongs to a conversation that exists, whatever
\* the interleaving of add_message, delete_conversation and bulk delete (as the
\* claim states it; nothing in the handlers checks it, and without a foreign
\* key in the schema nothing else does).
C11_EveryMessageHasConversation ==
    \A m \in chat_messages : m.conversation_id \in ConvRowIds

\* the same, for the schema that declares the foreign key
C11_ForeignKeyKeepsIt == fkey => C11_EveryMessageHasConversation

Scored(x) == HasScore(x.embedding, rk.query)
SameScore(x, y) ==
    /\ SimGE(x.embedding, y.embedding, rk.query)
    /\ SimGE(y.embedding, x.embedding, rk.query)
RankCandidates ==
    IF rk.store = "rag" THEN rk.rows ELSE HistCandidates(rk.rows, rk.scope)

\* C12 as the claim states it, for any stored vectors and any query vector:
\* every result has a score, the scores never increase along the results, and a
\* stored vector identical to the query has the score of the first result.
C12_AnyVectors ==
    rk.pc = "done" =>
        LET res == rk.results IN
        /\ \A i, j \in DOMAIN res : i < j =>
              /\ Scored(res[i]) /\ Scored(res[j])
              /\ SimGE(res[i].embedding, res[j].embedding, rk.query)
        /\ \A x \in RankCandidates : x.embedding = rk.query =>
              /\ Scored(x)
              /\ res # << >> /\ Scored(res[1]) /\ SameScore(res[1], x)

\* C12: in both similarity queries the results that have a score (neither the
\* stored vector nor the query is the zero vector) come first, in non-increasing
\* order of 1 - cosine distance; a stored non-zero vector identical to the query
\* has the maximum score, which is the score of the first result.
C12_RankedByScore ==
    rk.pc = "done" =>
        LET res == rk.results IN
        /\ \A i, j \in DOMAIN res : i < j =>
              (Scored(res[j]) =>
                  /\ Scored(res[i])
                  /\ SimGE(res[i].embedding, res[j].embedding, rk.query))
        /\ \A x \in RankCandidates : (x.embedding = rk.query /\ Scored(x)) =>
              /\ \A y \in RankCandidates :
                    Scored(y) => SimGE(x.embedding, y.embedding, rk.query)
              /\ res # << >> /\ Scored(res[1]) /\ SameScore(res[1], x)

\* a history search over three embedded messages: the one identical to the
\* query first, a less similar one second, the zero vector (no score) last
C12_Witness ==
    /\ rk.pc = "done" /\ rk.store = "history"
    /\ Len(rk.results) = 3
    /\ rk.results[1].embedding = rk.query
    /\ Scored(rk.results[2])
    /\ ~SimGE(rk.results[2].embedding, rk.results[1].embedding, rk.query)
    /\ ~Scored(rk.results[3])

\* a similarity_search has been answered with results
SearchAnswered == hresp'.op = "similarity_search" /\ hresp'.code = 200
\* the embedded messages of conversation c
EmbeddedOf(c) == {m \in chat_messages : m.conversation_id = c /\ m.embedding # << >>}
MessageOf(id) == CHOOSE m \in chat_messages : m.id = id

C13_Scoped(sc) ==
    LET res == hresp'.body.results
        q == hresp'.args.query.items
        k == IF hresp'.args.top_k < 1 THEN 1
             ELSE IF hresp'.args.top_k > 100 THEN 100 ELSE hresp'.args.top_k
        ids == {res[i].id : i \in DOMAIN res}
    IN  /\ \A i \in DOMAIN res :
              /\ res[i].conversation_id = sc
              /\ \E m \in EmbeddedOf(sc) : m.id = res[i].id
        /\ Len(res) = Min(k, Cardinality(EmbeddedOf(sc)))
        /\ Cardinality(ids) = Len(res)
        /\ \A m \in EmbeddedOf(sc) : m.id \notin ids =>
              \A i \in DOMAIN res : DistLE(MessageOf(res[i].id).embedding, m.embedding, q)

\* C13: a similarity_search given a conversation_id, whatever its value, returns
\* only embedded messages of that conversation: the top_k nearest among them,
\* min(top_k, their number) of them (as the claim states it; the handler applies
\* the filter only when the id is truthy, so the id 0 searches every conversation).
C13_ScopeRestricts ==
    [][(SearchAnswered /\ hresp'.args.scope.given) => C13_Scoped(hresp'.args.scope.id)]_vars

\* the same for an id other than 0
C13_NonZeroScopeRestricts ==
    [][(SearchAnswered /\ hresp'.args.scope.given /\ hresp'.args.scope.id # 0)
          => C13_Scoped(hresp'.args.scope.id)]_vars

\* C14: a RAG query that reaches its SELECT (encoder working, collection
\* present) succeeds for any integer top_k and returns min(max(1, top_k), rows)
\* results (as the claim states it; query_collection hands top_k to LIMIT as
\* it is, so a negative top_k is an error of the SELECT and 0 returns nothing).
C14_RagTopKClamped ==
    [][\A r \in Requests :
          (QueryCollectionExec(r, TRUE) /\ has_table(req[r].table)) =>
              /\ req'[r].resp.kind = "ok"
              /\ Len(req'[r].resp.body) =
                    Min(Max(1, req[r].arg[1]), Cardinality(tables[req[r].table].rows))]_vars

\* the history half of the claim: similarity_search clamps top_k to 1..100
C14_HistoryTopKClamped ==
    [][SearchAnswered =>
          LET k == hresp'.args.top_k
              eff == IF k < 1 THEN 1 ELSE IF k > 100 THEN 100 ELSE k
          IN  Len(hresp'.body.results) =
                 Min(eff, Cardinality(HistCandidates(chat_messages, hresp'.args.scope)))]_vars

\* C15: of the create_collection requests that race for one normalized name,
\* every one that does not succeed is answered AlreadyExists (as the claim
\* states it; a create that passed its checks and finds the name registered
\* by the other request raises inside type(...) and is answered 500).
C15_LoserGetsAlreadyExists ==
    [][\A r \in Requests :
          (Answers(r) /\ req[r].op = "create_collection") =>
              req'[r].resp.kind \in {"ok", "AlreadyExists"}]_vars

\* what does hold of racing creates: at most one is answered 201 per name
\* while the name stays registered, and the catalog holds the name once
C15_OneCreateSucceeds ==
    [][\A r \in Requests :
          (Answers(r) /\ req[r].op = "create_collection" /\ req'[r].resp.kind = "ok") =>
              /\ req[r].table \notin metadata
              /\ has_table(req[r].table)']_vars

\* C16: create_collection answers AlreadyExists only when a collection of the
\* normalized name exists in storage (as the claim states it; the name stays in
\* Base.metadata after delete_collection, so a later create is refused).
C16_AlreadyExistsOnlyIfStored ==
    [][\A r \in Requests :
          (Arrives(r) /\ req'[r].op = "create_collection"
                      /\ req'[r].resp = AlreadyExists) =>
              has_table(req'[r].table)]_vars

\* C17: a document operation whose collection was dropped between its
\* existence check and its statement is answered NotFound (as the claim states
\* it; the statement fails on the missing table and the handler answers 500).
C17_DroppedMeansNotFound ==
    [][\A r \in Requests :
          (/\ Answers(r)
           /\ req[r].op \in {"add_document", "update_document", "delete_document",
                             "ingest_file", "query_collection"}
           /\ ~has_table(req[r].table)) =>
              req'[r].resp.kind = "NotFound"]_vars

\* what does hold: nothing of a document operation is stored once the
\* collection is dropped, and no row appears in a table that does not exist
C17_NoDataAfterDrop ==
    [][\A r \in Requests :
          (Answers(r) /\ req[r].op \in DocOps /\ ~has_table(req[r].table)) =>
              tables' = tables]_vars

\* C18: a history request that obtained a connection has closed it by the time
\* it is answered, on every exit path (as the claim states it; when
\* conn.rollback() raises in an except branch, conn.close() is not reached).
C18_ConnectionClosed ==
    \A h \in HRequests : hreq[h].pc = "done" => hreq[h].conn # "open"

\* what does hold: a request is answered with its connection still open only
\* on the path where rollback() raises
C18_OpenOnlyIfRollbackRaises ==
    [][\A h \in HRequests :
          (~HFree(h) /\ hreq'[h].pc = "done" /\ hreq'[h].conn = "open") =>
              HExcept(h, TRUE)]_vars

====
